---- MODULE Spec2Model ----
(***************************************************************************)
(* State-machine model of the session / request-handling core of the mem0  *)
(* MCP server (src/src/mcp-ecosystem/servers/main.py): rate limiter,       *)
(* backend client registry, result cache, session context and the tools.   *)
(*                                                                         *)
(* Scheduling: every handler body between two awaits runs atomically on    *)
(* the asyncio event loop.  check_rate_limit, get_memory_client_safe and   *)
(* the tool bodies contain no suspension point, so each is one action.     *)
(*                                                                         *)
(* Time: the code never reads a clock.  Every "timestamp" it uses is a     *)
(* fresh draw of secrets.randbelow(1000000) (main.py lines 93, 256, 267).  *)
(* The model draws those values nondeterministically and keeps the wall    *)
(* clock `clock` as a variable of the environment that the code cannot     *)
(* read; the history variables record the wall-clock instants of the       *)
(* events the timing properties speak about.                               *)
(***************************************************************************)
EXTENDS Integers, Sequences, FiniteSets, TLC

VARIABLES
    clock,              \* environment: wall-clock seconds since start
    rate_limit_store,   \* _rate_limit_store: key -> [count, window_start]
    rateHist,           \* history: key -> wall-clock facts about its window
    lastRate,           \* history: the last check_rate_limit call
    environ,            \* environment: os.environ, name -> value or Unset
    backendOk,          \* environment: the backend can be constructed and called
    memory_client,      \* _memory_client: None or a handle
    memory_client_config_hash,  \* _memory_client_config_hash
    memory_client_initialized,  \* _memory_client_initialized
    regHist,            \* history of the registry
    lastGet,            \* history: the last get_memory_client_safe call
    allowed_keys,       \* environment: os.getenv("ALLOWED_API_KEYS", "").split(",")
    conns,              \* per connection: position of handle_sse and its locals
    user_id_var,        \* user_id_var: the value in each connection's context
    client_name_var,    \* client_name_var: the value in each connection's context
    lastConn,           \* history: the last handle_sse step
    backend,            \* the memory backend: user_id -> set of records
    memory_cache,       \* _memory_cache, in insertion order
    deleted,            \* history: user_id -> the user's last delete_all
    lastCall            \* history: the last tool call

rateVars == <<rate_limit_store, rateHist, lastRate>>

registryVars == <<memory_client, memory_client_config_hash,
                  memory_client_initialized, regHist, lastGet>>

envVars == <<environ, backendOk>>

sessionVars == <<allowed_keys, conns, user_id_var, client_name_var, lastConn>>

toolVars == <<backend, memory_cache, deleted, lastCall>>

vars == <<clock, rateVars, envVars, registryVars, sessionVars, toolVars>>

\* Python's None, where a handle or a call record is expected
None == [kind |-> "None"]

\* Python's None, where a string is expected
NoString == "<none>"

-----------------------------------------------------------------------------
(* Bounds of the model and program constants *)

\* main.py:70 has 60; scaled so that the ceiling is reached in a few calls
MAX_REQUESTS_PER_MINUTE == 2

REQUEST_WINDOW_SECONDS == 60

\* exclusive upper bound of secrets.randbelow(1000000)
RANDBELOW_LIMIT == 1000000

\* the wall clock advances ClockStep seconds per Tick, at most MaxTicks times
ClockStep == 301

MaxTicks == 1

\* Strings that are concatenated into keys and searched for substrings are
\* sequences of atoms: an atom is ":" or a maximal run of other characters.
\* Concatenation is \o, and a substring test for a pattern that begins and
\* ends with ":" is a test for a contiguous subsequence.
Colon == <<":">>

ClientIps == {<<"10.0.0.1">>}

UserIds == {<<"alice">>, <<"bob">>}

ClientNames == {<<"cursor">>}

Conns == {"c1", "c2"}

\* a context variable that holds no value
Missing == <<"<missing>">>

DEFAULT_USER_ID == <<"default_user">>

CACHE_TTL_SECONDS == 300

\* main.py:271 has 100 (`if len(_memory_cache) > 100`); scaled so that the
\* cache fills up in a few searches
CACHE_MAX_SIZE == 2

\* default of search_memories' limit
DEFAULT_LIMIT == 5

Texts == {"t1", "t2"}

\* main.py:66 has 10; scaled so that batches of every admissible length and
\* one above are enumerated
BATCH_SIZE_LIMIT == 3

Queries == {"t1"}

TagInputs == {""}

-----------------------------------------------------------------------------
(* Environment: the wall clock *)

Tick ==
    /\ clock < MaxTicks * ClockStep
    /\ clock' = clock + ClockStep

-----------------------------------------------------------------------------
(* Rate limiter: check_rate_limit, main.py 90-110 *)

\* current_time = secrets.randbelow(1000000), sampled at the values that
\* decide `current_time - window_start > REQUEST_WINDOW_SECONDS`
RateTimeSamples ==
    {t \in {0, REQUEST_WINDOW_SECONDS, REQUEST_WINDOW_SECONDS + 1} :
        t < RANDBELOW_LIMIT}

\* key = f"{client_ip}:{user_id}"
RateKey(client_ip, user_id) == client_ip \o Colon \o user_id

\* lines 95-98: the window the call works on
WindowLookup(store, key, current_time) ==
    IF key \in DOMAIN store
    THEN store[key]
    ELSE [count |-> 0, window_start |-> current_time]

\* line 101
WindowExpired(window_data, current_time) ==
    current_time - window_data.window_start > REQUEST_WINDOW_SECONDS

\* lines 100-103
WindowAfterReset(window_data, current_time) ==
    IF WindowExpired(window_data, current_time)
    THEN [count |-> 0, window_start |-> current_time]
    ELSE window_data

\* line 106 negated: the request is admitted
UnderLimit(window_data) == window_data.count < MAX_REQUESTS_PER_MINUTE

\* the return value of check_rate_limit
CheckRateLimitResult(store, key, current_time) ==
    UnderLimit(WindowAfterReset(WindowLookup(store, key, current_time), current_time))

\* the store after check_rate_limit
CheckRateLimitStore(store, key, current_time) ==
    LET w == WindowAfterReset(WindowLookup(store, key, current_time), current_time)
        w2 == IF UnderLimit(w) THEN [w EXCEPT !.count = w.count + 1] ELSE w
    IN  [k \in DOMAIN store \cup {key} |-> IF k = key THEN w2 ELSE store[k]]

\* the code started a window in this call: count 0, window_start = now
CodeWindowFresh(store, key, current_time) ==
    \/ key \notin DOMAIN store
    \/ WindowExpired(store[key], current_time)

\* History of a key's window in wall-clock terms.
\*   anchor    wall-clock instant of the first call of the wall-clock window
\*   calls     check_rate_limit calls for the key since anchor (this one
\*             included), counted up to MAX_REQUESTS_PER_MINUTE + 2
\*   fresh     the code's window was fresh (count 0) at the anchor call
\*   startedAt wall-clock instant at which the code last wrote window_start
\*   rejected  the last call for the key returned False
\*   admitted  calls for the key since anchor that returned True, counted up
\*             to MAX_REQUESTS_PER_MINUTE + 1
\*   sinceReset calls that returned True since the code last wrote
\*             window_start
RateHistAfter(hist, store, key, current_time, wall) ==
    LET known   == key \in DOMAIN hist
        newWall == \/ ~known
                   \/ wall - hist[key].anchor > REQUEST_WINDOW_SECONDS
        codeNew == CodeWindowFresh(store, key, current_time)
        one     == IF CheckRateLimitResult(store, key, current_time) THEN 1 ELSE 0
        h == [anchor    |-> IF newWall THEN wall ELSE hist[key].anchor,
              calls     |-> IF newWall THEN 1
                            ELSE IF hist[key].calls > MAX_REQUESTS_PER_MINUTE + 1
                                 THEN hist[key].calls
                                 ELSE hist[key].calls + 1,
              fresh     |-> IF newWall THEN codeNew ELSE hist[key].fresh,
              startedAt |-> IF codeNew THEN wall ELSE hist[key].startedAt,
              rejected  |-> ~CheckRateLimitResult(store, key, current_time),
              admitted  |-> IF newWall THEN one
                            ELSE IF hist[key].admitted > MAX_REQUESTS_PER_MINUTE
                                 THEN hist[key].admitted
                                 ELSE hist[key].admitted + one,
              sinceReset |-> IF codeNew THEN one
                             ELSE hist[key].sinceReset + one]
    IN  [k \in DOMAIN hist \cup {key} |-> IF k = key THEN h ELSE hist[k]]

CheckRateLimit(client_ip, user_id) ==
    \E current_time \in RateTimeSamples :
        LET key == RateKey(client_ip, user_id) IN
        /\ rate_limit_store' = CheckRateLimitStore(rate_limit_store, key, current_time)
        /\ rateHist' = RateHistAfter(rateHist, rate_limit_store, key, current_time, clock)
        /\ lastRate' = [key       |-> key,
                        pair      |-> <<client_ip, user_id>>,
                        kind      |-> "rate",
                        allowed   |-> CheckRateLimitResult(rate_limit_store, key, current_time),
                        time      |-> current_time,
                        wasRejected |-> key \in DOMAIN rateHist /\ rateHist[key].rejected,
                        elapsed   |-> IF key \in DOMAIN rateHist
                                      THEN clock - rateHist[key].startedAt
                                      ELSE 0]


-----------------------------------------------------------------------------
(* Backend client registry: get_memory_client_safe, main.py 134-245 *)

Unset == "<unset>"

EnvNames == {"MEM0_API_KEY", "QDRANT_HOST", "QDRANT_PORT", "OLLAMA_HOST",
             "LLAMA_CPP_MODEL"}

\* the value an environment variable takes when it is set
EnvValue(name) ==
    CASE name = "MEM0_API_KEY"    -> "m0-key"
      [] name = "QDRANT_HOST"     -> "qdrant"
      [] name = "QDRANT_PORT"     -> "6334"
      [] name = "OLLAMA_HOST"     -> "http://ollama:11434"
      [] name = "LLAMA_CPP_MODEL" -> "model.gguf"

Environs == [EnvNames -> {0, 1}]

EnvOf(bits) == [n \in EnvNames |-> IF bits[n] = 1 THEN EnvValue(n) ELSE Unset]

\* os.getenv(name, default)
Getenv(env, name, default) == IF env[name] = Unset THEN default ELSE env[name]

\* lines 146-153; md5 is taken to be injective, so the fingerprint is the
\* joined string itself
ConfigHash(env) ==
    Getenv(env, "MEM0_API_KEY", "") \o "|" \o
    Getenv(env, "QDRANT_HOST", "localhost") \o "|" \o
    Getenv(env, "QDRANT_PORT", "6333") \o "|" \o
    Getenv(env, "OLLAMA_HOST", "") \o "|" \o
    Getenv(env, "LLAMA_CPP_MODEL", "")

\* line 164: `if mem0_api_key:`
UseCloud(env) == Getenv(env, "MEM0_API_KEY", "") # ""

\* faulty variant of LocalProvider: llama.cpp is looked at first
LocalProviderLlamaFirst(env) ==
    IF Getenv(env, "LLAMA_CPP_MODEL", "") # "" THEN "llama.cpp"
    ELSE IF Getenv(env, "OLLAMA_HOST", "") # "" THEN "ollama"
    ELSE "openai"

\* lines 186-238: the llm/embedder provider of the local configuration
LocalProvider(env) ==
    IF Getenv(env, "OLLAMA_HOST", "") # "" THEN "ollama"
    ELSE IF Getenv(env, "LLAMA_CPP_MODEL", "") # "" THEN "llama.cpp"
    ELSE "openai"

\* line 169: MemoryClient(api_key=mem0_api_key), before update_project
NewMemoryClient(id, env) ==
    [id |-> id, kind |-> "MemoryClient", builtFor |-> ConfigHash(env),
     provider |-> "cloud", instructions |-> FALSE]

\* line 170: update_project(custom_instructions=CUSTOM_INSTRUCTIONS)
UpdateProject(client) == [client EXCEPT !.instructions = TRUE]

\* line 240: Memory.from_config(config_dict=config)
NewMemory(id, env) ==
    [id |-> id, kind |-> "Memory", builtFor |-> ConfigHash(env),
     provider |-> LocalProvider(env), instructions |-> FALSE]

\* Where the construction raises: "none" (it succeeds), "ctor" (the import or
\* the constructor raises), "update" (update_project raises).  With the
\* backend reachable nothing raises.
FailurePoints(env, ok) ==
    IF ok THEN {"none"}
    ELSE IF UseCloud(env) THEN {"ctor", "update"} ELSE {"ctor"}

\* lines 156-159: the client after the fingerprint comparison
ClientAfterHashCheck(client, stored_hash, env) ==
    IF stored_hash # ConfigHash(env) THEN None ELSE client

\* lines 164-175: whether the branch constructs a client
NeedsConstruction(client, env) ==
    \/ client = None
    \/ client.kind # (IF UseCloud(env) THEN "MemoryClient" ELSE "Memory")

\* line 139: the early return
AlreadyInitialized(initialized) == initialized

\* The whole function as a relation between the registry before and after:
\* [client, hash, initialized, result, constructed]
GetClientOutcome(client, stored_hash, initialized, env, fail, id) ==
    IF AlreadyInitialized(initialized)
    THEN [client |-> client, hash |-> stored_hash, initialized |-> initialized,
          result |-> client, constructed |-> 0]
    ELSE
      LET c0 == ClientAfterHashCheck(client, stored_hash, env)
          h  == ConfigHash(env)
      IN  IF ~NeedsConstruction(c0, env)
          THEN [client |-> c0, hash |-> h, initialized |-> TRUE,
                result |-> c0, constructed |-> 0]
          ELSE IF fail = "ctor"
          THEN [client |-> c0, hash |-> h, initialized |-> TRUE,
                result |-> None, constructed |-> 0]
          ELSE IF UseCloud(env)
          THEN IF fail = "update"
               THEN [client |-> NewMemoryClient(id, env), hash |-> h,
                     initialized |-> TRUE, result |-> None, constructed |-> 1]
               ELSE [client |-> UpdateProject(NewMemoryClient(id, env)),
                     hash |-> h, initialized |-> TRUE,
                     result |-> UpdateProject(NewMemoryClient(id, env)),
                     constructed |-> 1]
          ELSE [client |-> NewMemory(id, env), hash |-> h, initialized |-> TRUE,
                result |-> NewMemory(id, env), constructed |-> 1]

\* History of the registry.
\*   built      handles constructed so far (the next handle gets id built + 1)
\*   builtNow   handles constructed since the configuration last changed
\*   returned   results returned since the configuration last changed
\*   failed     some call since start returned None out of a construction
InitRegHist == [built |-> 0, builtNow |-> 0, returned |-> {}, failed |-> FALSE]

\* the outcome of get_memory_client_safe() in the current state
GetOutcome(fail) ==
    GetClientOutcome(memory_client, memory_client_config_hash,
                     memory_client_initialized, environ, fail, regHist.built + 1)

\* the registry after get_memory_client_safe() ended with outcome o
ApplyGet(o) ==
    /\ memory_client' = o.client
    /\ memory_client_config_hash' = o.hash
    /\ memory_client_initialized' = o.initialized
    /\ regHist' = [built    |-> regHist.built + o.constructed,
                   builtNow |-> regHist.builtNow + o.constructed,
                   returned |-> regHist.returned \cup {o.result},
                   failed   |-> \/ regHist.failed
                                \/ (~memory_client_initialized /\ o.result = None)]
    /\ lastGet' = [kind         |-> "get",
                   result       |-> o.result,
                   hash         |-> ConfigHash(environ),
                   backendOk    |-> backendOk,
                   afterFailure |-> regHist.failed,
                   hadHandle    |-> memory_client # None]

\* get_memory_client_safe()
GetMemoryClientSafe ==
    \E fail \in FailurePoints(environ, backendOk) : ApplyGet(GetOutcome(fail))

\* environment: one fingerprinted configuration value is set or unset
ChangeConfig ==
    /\ \E n \in EnvNames :
          environ' = [environ EXCEPT ![n] = IF @ = Unset THEN EnvValue(n) ELSE Unset]
    /\ regHist' = [regHist EXCEPT !.builtNow = 0, !.returned = {}]
    /\ UNCHANGED <<backendOk, memory_client, memory_client_config_hash,
                   memory_client_initialized, lastGet>>

\* environment: the backend becomes reachable or unreachable
BackendToggle ==
    /\ backendOk' = ~backendOk
    /\ UNCHANGED <<environ, registryVars>>

InitEnv ==
    /\ environ \in {EnvOf(b) : b \in Environs}
    /\ backendOk \in BOOLEAN

\* the default deployment: nothing configured, backend reachable
InitEnvDefault ==
    /\ environ = [n \in EnvNames |-> Unset]
    /\ backendOk = TRUE

InitRegistryVars ==
    /\ memory_client = None
    /\ memory_client_config_hash = NoString
    /\ memory_client_initialized = FALSE
    /\ regHist = InitRegHist
    /\ lastGet = None

-----------------------------------------------------------------------------
(* Authentication and session context: main.py 76-82, 112-132, 623-652 *)

\* the X-API-Key header of a request; NoString when the header is absent
ApiKeyHeaders == {NoString, "", "k1", "bad"}

\* os.getenv("ALLOWED_API_KEYS", "").split(","): unset, "k1" and "k1,k2"
AllowLists == {<<"">>, <<"k1">>, <<"k1", "k2">>}

\* faulty variant of VerifyApiKey: without the allow-all branch
VerifyApiKeyStrict(allowed, api_key) ==
    \E i \in 1..Len(allowed) : allowed[i] = api_key

\* verify_api_key, lines 76-82
VerifyApiKey(allowed, api_key) ==
    IF allowed = <<>> \/ allowed = <<"">>
    THEN TRUE
    ELSE \E i \in 1..Len(allowed) : allowed[i] = api_key

\* line 116: `if api_key and not verify_api_key(api_key)`
ApiKeyRejected(allowed, api_key) ==
    /\ api_key # NoString
    /\ api_key # ""
    /\ ~VerifyApiKey(allowed, api_key)

\* ContextVar.get(default) in the context of connection c
CtxGet(ctx, c, default) == IF ctx[c] = Missing THEN default ELSE ctx[c]

\* faulty variant of CtxSet: one process-wide variable shared by all connections
CtxSetShared(ctx, c, value) == [x \in DOMAIN ctx |-> value]

\* ContextVar.set(value) in the context of connection c: every connection
\* handler runs in its own task, whose context is a copy
CtxSet(ctx, c, value) == [ctx EXCEPT ![c] = value]

\* faulty variant of CtxReset: the binding is left in place
CtxResetKeep(ctx, c, token) == [x \in DOMAIN ctx |-> ctx[x]]

\* ContextVar.reset(token) in the context of connection c
CtxReset(ctx, c, token) == [ctx EXCEPT ![c] = token]

ClosedConn == [state |-> "closed", uid |-> Missing,
               user_token |-> Missing, client_token |-> Missing]

\* authenticate_request, lines 112-132: the status it ends with (200 when it
\* returns, else that of the HTTPException) and the rate-limit store after
AuthenticateRequest(allowed, store, api_key, client_ip, user_id, current_time) ==
    IF ApiKeyRejected(allowed, api_key)
    THEN [status |-> 401, store |-> store]
    ELSE LET key == RateKey(client_ip, user_id) IN
         [status |-> IF CheckRateLimitResult(store, key, current_time)
                     THEN 200 ELSE 429,
          store  |-> CheckRateLimitStore(store, key, current_time)]

\* handle_sse up to the suspension in connect_sse: lines 623-646.  The
\* wall-clock history of the rate-limit windows (rateHist, lastRate) is kept
\* by CheckRateLimit alone.
Connect(c, client_ip, path_user, path_client, api_key) ==
    /\ conns[c].state = "closed"
    /\ \E current_time \in RateTimeSamples :
         LET a == AuthenticateRequest(allowed_keys, rate_limit_store, api_key,
                                      client_ip, path_user, current_time)
         IN  /\ rate_limit_store' = a.store
             /\ lastConn' = [kind |-> "conn", conn |-> c, event |-> "connect",
                             status |-> a.status]
             /\ IF a.status = 200
                THEN /\ conns' = [conns EXCEPT ![c] =
                            [state        |-> "open",
                             uid          |-> path_user,
                             user_token   |-> user_id_var[c],
                             client_token |-> client_name_var[c]]]
                     /\ user_id_var' = CtxSet(user_id_var, c, path_user)
                     /\ client_name_var' = CtxSet(client_name_var, c, path_client)
                ELSE UNCHANGED <<conns, user_id_var, client_name_var>>
    /\ UNCHANGED <<allowed_keys, rateHist, lastRate>>

\* the ways the session of an admitted connection ends: mcp_server.run
\* returns, the client disconnects (the task is cancelled), or the session
\* raises (logged and re-raised by lines 647-649)
ExitPaths == {"end", "disconnect", "error"}

\* handle_sse from the end of the session through the finally block: lines
\* 647-652
Disconnect(c, how) ==
    /\ conns[c].state = "open"
    /\ lastConn' = [kind |-> "conn", conn |-> c, event |-> how,
                    status |-> IF how = "error" THEN 500 ELSE 200]
    /\ user_id_var' = CtxReset(user_id_var, c, conns[c].user_token)
    /\ client_name_var' = CtxReset(client_name_var, c, conns[c].client_token)
    /\ conns' = [conns EXCEPT ![c] = ClosedConn]
    /\ UNCHANGED allowed_keys

InitSessionVars ==
    /\ conns = [c \in Conns |-> ClosedConn]
    /\ user_id_var = [c \in Conns |-> Missing]
    /\ client_name_var = [c \in Conns |-> Missing]
    /\ lastConn = None

-----------------------------------------------------------------------------
(* The memory backend (mem0 client), as the tools use it *)

\* a user_id path parameter that contains the separator of the keys and the
\* user_id of another user between two of them
ColonUserId == <<"x", ":", "alice", ":", "y">>

BackendUsers == UserIds \cup {DEFAULT_USER_ID, ColonUserId}

\* the query matches the text of a record
Matches(query, text) == query = text

Record(text, tag_list) == [memory |-> text, tags |-> tag_list]

\* memory_client.get_all(user_id=uid): the records of the user, in the order
\* in which they were added
BackendGetAll(bk, uid) == bk[uid]

\* memory_client.search(query, user_id=uid)
BackendSearch(bk, uid, query) ==
    SelectSeq(bk[uid], LAMBDA r : Matches(query, r.memory))

\* memory_client.add(text, user_id=uid, metadata=...)
BackendAdd(bk, uid, text, tag_list) ==
    IF \E i \in 1..Len(bk[uid]) : bk[uid][i] = Record(text, tag_list)
    THEN bk
    ELSE [bk EXCEPT ![uid] = Append(@, Record(text, tag_list))]

\* memory_client.delete_all(user_id=uid)
BackendDeleteAll(bk, uid) == [bk EXCEPT ![uid] = <<>>]

\* the shapes of a backend response: {"results": [...]} or a flat list
Shapes == {"dict", "list"}

-----------------------------------------------------------------------------
(* Result cache: main.py 247-273 *)

\* current time of a cache operation: secrets.randbelow(1000000), sampled at
\* the values that decide `now - timestamp < CACHE_TTL_SECONDS`
CacheTimeSamples ==
    {t \in {0, CACHE_TTL_SECONDS} : t < RANDBELOW_LIMIT}

\* hashlib.md5(json.dumps(params, sort_keys=True)).hexdigest(): one atom,
\* a different one for different parameters
ParamHash(query, limit, tags) ==
    "md5{limit=" \o ToString(limit) \o ",query=" \o query \o ",tags=" \o tags \o "}"

\* faulty variant of GetCacheKey: the key leaves the user out
GetCacheKeyShared(operation, user_id, query, limit, tags) ==
    <<operation>> \o Colon \o <<ParamHash(query, limit, tags)>>

\* get_cache_key, lines 247-250
GetCacheKey(operation, user_id, query, limit, tags) ==
    <<operation>> \o Colon \o user_id \o Colon \o <<ParamHash(query, limit, tags)>>

\* position of the key in the cache, 0 when absent
CacheIndex(cache, cache_key) ==
    IF \E i \in 1..Len(cache) : cache[i].key = cache_key
    THEN CHOOSE i \in 1..Len(cache) : cache[i].key = cache_key
    ELSE 0

RemoveAt(seq, i) == SubSeq(seq, 1, i - 1) \o SubSeq(seq, i + 1, Len(seq))

\* line 256
CacheEntryValid(entry, current_time) ==
    current_time - entry.timestamp < CACHE_TTL_SECONDS

\* get_cached_result, lines 252-261: the value returned and the cache after
GetCachedResult(cache, cache_key, current_time) ==
    LET i == CacheIndex(cache, cache_key) IN
    IF i = 0 THEN [result |-> None, cache |-> cache]
    ELSE IF CacheEntryValid(cache[i], current_time)
    THEN [result |-> cache[i].result, cache |-> cache]
    ELSE [result |-> None, cache |-> RemoveAt(cache, i)]

\* line 272: min(keys, key=timestamp), the first of the smallest
OldestIndex(cache) ==
    CHOOSE i \in 1..Len(cache) :
        /\ \A j \in 1..Len(cache) : cache[i].timestamp <= cache[j].timestamp
        /\ \A j \in 1..(i - 1) : cache[j].timestamp > cache[i].timestamp

\* faulty variant of CacheOverflow: the comparison is off by one
CacheOverflowLate(cache) == Len(cache) > CACHE_MAX_SIZE + 1

\* line 271: `if len(_memory_cache) > 100`
CacheOverflow(cache) == Len(cache) > CACHE_MAX_SIZE

\* set_cached_result, lines 263-273.  storedAt, owner, params and stale are
\* history: the wall-clock instant of the store, the user whose call stored
\* the entry, the parameters of that call and whether the entry survived a
\* delete_all of its owner.
SetCachedResult(cache, cache_key, result, current_time, wall, owner, params) ==
    LET e  == [key |-> cache_key, result |-> result, timestamp |-> current_time,
               storedAt |-> wall, owner |-> owner, params |-> params,
               stale |-> FALSE]
        i  == CacheIndex(cache, cache_key)
        c1 == IF i = 0 THEN Append(cache, e) ELSE [cache EXCEPT ![i] = e]
    IN  IF CacheOverflow(c1) THEN RemoveAt(c1, OldestIndex(c1)) ELSE c1

\* `f":{uid}:" in k`, line 476
KeyMentions(cache_key, uid) ==
    LET pat == Colon \o uid \o Colon IN
    \E i \in 1..(Len(cache_key) - Len(pat) + 1) :
        SubSeq(cache_key, i, i + Len(pat) - 1) = pat

\* faulty variant of PurgeUser: the pattern lacks the operation prefix separator, so
\* it is compared with the whole key and matches none
PurgeUserWholeKey(cache, uid) ==
    SelectSeq(cache, LAMBDA e : e.key # Colon \o uid \o Colon)

\* lines 476-478: the cache without the keys that mention the user
PurgeUser(cache, uid) ==
    SelectSeq(cache, LAMBDA e : ~KeyMentions(e.key, uid))

-----------------------------------------------------------------------------
(* Tools: main.py 286-507 *)

\* a tool's textual response: a status or error line, or json.dumps of a list
Text(msg) == [kind |-> "text", text |-> msg]

Json(value) == [kind |-> "json", value |-> value]

\* tags.split(','), for the tag strings of the model
SplitComma(tags) ==
    CASE tags = ""      -> <<"">>
      [] tags = " "     -> <<" ">>
      [] tags = "work"  -> <<"work">>
      [] tags = "work, " -> <<"work", " ">>

\* str.strip(), for the pieces above
Strip(piece) == IF piece = " " THEN "" ELSE piece

\* lines 302, 397: [tag.strip() for tag in tags.split(',') if tag.strip()]
ParseTags(tags) ==
    IF tags = "" THEN <<>>
    ELSE LET pieces == SplitComma(tags)
             kept   == SelectSeq(pieces, LAMBDA x : Strip(x) # "")
         IN  [i \in 1..Len(kept) |-> Strip(kept[i])]

\* seq[:limit] for limit >= 0
Truncate(seq, limit) == SubSeq(seq, 1, IF limit < Len(seq) THEN limit ELSE Len(seq))

\* [memory["memory"] for memory in seq]
Flatten(seq) == [i \in 1..Len(seq) |-> seq[i].memory]

\* lines 424-429: the records that carry one of the filter tags
FilterByTags(seq, filter_tags) ==
    SelectSeq(seq, LAMBDA r :
        \E i \in 1..Len(filter_tags), j \in 1..Len(r.tags) :
            filter_tags[i] = r.tags[j])

\* the response of the backend that carries the records in the shape
BackendResponse(shape, records) == [shape |-> shape, records |-> records]

\* an element of the serialized list that is a whole record, not its text: a
\* JSON object, written with its "memory" member only
RecordObject(r) == "{\"memory\": \"" \o r.memory \o "\"}"

\* lines 349-352 and 356-359: what get_all_memories serializes.  A flat list
\* is passed on as it is, with the whole records in it.
GetAllFlattened(memories) ==
    IF memories.shape = "dict" THEN Flatten(memories.records)
    ELSE [i \in 1..Len(memories.records) |-> RecordObject(memories.records[i])]

\* lines 411-414 and 418-421: the records search_memories works on
SearchAllMemories(memories) ==
    IF memories.shape = "dict" THEN memories.records
    ELSE memories.records

\* faulty variant of Dispatchable: a tool call is dispatched for a connection
\* that has no session
DispatchableAlways(c) == TRUE

\* a tool call is dispatched by mcp_server.run, which handle_sse runs inside
\* connect_sse (lines 637-646) once the connection is admitted and bound
Dispatchable(c) == conns[c].state = "open"

\* the identity a tool resolves: user_id_var.get(DEFAULT_USER_ID)
CurrentUser(c) == CtxGet(user_id_var, c, DEFAULT_USER_ID)

\* search_memories, lines 388-443, from the identity on: the response, the
\* cache afterwards and what happened on the way
\* faulty variant of StoresResult: the result is stored whatever the filter
StoresResultUnfiltered(raised, filter_tags) == ~raised

\* faulty variant of StoresResult: the store does not wait for the backend
StoresResultEager(raised, filter_tags) == filter_tags = <<>>

\* lines 406-438: set_cached_result is reached when the call of the backend
\* and the normalization did not raise and `not filter_tags` holds
StoresResult(raised, filter_tags) == ~raised /\ filter_tags = <<>>

\* line 402: `if cached_result and not filter_tags`
ServesCached(cached_result, filter_tags) ==
    cached_result # None /\ filter_tags = <<>>

SearchOutcome(cache, bk, uid, query, limit, tags, t_get, t_set, ok, wall, shape) ==
    LET filter_tags == ParseTags(tags)
        cache_key   == GetCacheKey("search", uid, query, limit, tags)
        got         == GetCachedResult(cache, cache_key, t_get)
        memories    == BackendResponse(shape, BackendSearch(bk, uid, query))
        all         == SearchAllMemories(memories)
        kept        == IF filter_tags # <<>>
                       THEN FilterByTags(all, filter_tags) ELSE all
        result      == IF ok THEN Json(Flatten(Truncate(kept, limit)))
                       ELSE Text("Error searching memories")
        stores      == StoresResult(~ok, filter_tags)
    IN  IF ServesCached(got.result, filter_tags)
        THEN [result |-> got.result, cache |-> got.cache,
              fromCache |-> TRUE, backendCalled |-> FALSE, stored |-> Missing]
        ELSE [result |-> result,
              cache |-> IF stores
                        THEN SetCachedResult(got.cache, cache_key, result,
                                             t_set, wall, uid,
                                             <<query, limit, tags>>)
                        ELSE got.cache,
              fromCache |-> FALSE, backendCalled |-> TRUE,
              stored |-> IF stores THEN cache_key ELSE Missing]

\* stored (history): the cache key under which the call stored its result;
\* backendDown (history): the calls of the backend raised during the call
\* what the cache held for the key when it was looked up (history)
LookedUp(cache, uid, query, limit, tags, wall) ==
    LET i == CacheIndex(cache, GetCacheKey("search", uid, query, limit, tags))
    IN  IF i = 0 THEN None
        ELSE [kind |-> "entry", result |-> cache[i].result,
              age |-> wall - cache[i].storedAt, stale |-> cache[i].stale,
              owner |-> cache[i].owner, params |-> cache[i].params]

NoCall(op, c) ==
    [kind |-> "tool", op |-> op, conn |-> c, connUser |-> conns[c].uid,
     uid |-> Missing, backendUid |-> Missing, backendCalled |-> FALSE,
     backendDown |-> ~backendOk,
     query |-> "", limit |-> 0, tags |-> "",
     fromCache |-> FALSE, found |-> None, stored |-> Missing, expected |-> {},
     peers |-> {conns[d].uid : d \in {x \in Conns \ {c} : conns[x].state = "open"}},
     afterDelete |-> "no", result |-> Text("Error: Memory system unavailable")]

\* add_memories, lines 286-320
AddMemories(c, text, tags) ==
    /\ Dispatchable(c)
    /\ \E fail \in FailurePoints(environ, backendOk) :
         LET o == GetOutcome(fail)
             uid == CurrentUser(c)
         IN  /\ ApplyGet(o)
             /\ IF o.result = None
                THEN /\ lastCall' = NoCall("add", c)
                     /\ UNCHANGED <<backend, deleted>>
                ELSE IF ~backendOk
                THEN /\ lastCall' = [NoCall("add", c) EXCEPT
                            !.uid = uid, !.backendUid = uid,
                            !.backendCalled = TRUE,
                            !.result = Text("Error adding memory")]
                     /\ UNCHANGED <<backend, deleted>>
                ELSE /\ backend' = BackendAdd(backend, uid, text, ParseTags(tags))
                     /\ deleted' = [deleted EXCEPT ![uid] = "no"]
                     /\ lastCall' = [NoCall("add", c) EXCEPT
                            !.uid = uid, !.backendUid = uid,
                            !.backendCalled = TRUE,
                            !.result = Text("Successfully added memory")]
    /\ UNCHANGED memory_cache

\* get_all_memories, lines 331-363
GetAllMemories(c) ==
    /\ Dispatchable(c)
    /\ \E fail \in FailurePoints(environ, backendOk), shape \in Shapes :
         LET o == GetOutcome(fail)
             uid == CurrentUser(c)
             memories == BackendResponse(shape, BackendGetAll(backend, uid))
         IN  /\ ApplyGet(o)
             /\ lastCall' =
                  IF o.result = None THEN NoCall("get_all", c)
                  ELSE [NoCall("get_all", c) EXCEPT
                          !.uid = uid, !.backendUid = uid,
                          !.backendCalled = TRUE,
                          !.afterDelete = deleted[uid],
                          !.result =
                              IF ~backendOk THEN Text("Error getting memories")
                              ELSE Json(GetAllFlattened(memories))]
    /\ UNCHANGED <<backend, memory_cache, deleted>>

\* search_memories, lines 377-443
SearchMemories(c, query, limit, tags) ==
    /\ Dispatchable(c)
    /\ \E fail \in FailurePoints(environ, backendOk),
          t_get \in CacheTimeSamples, t_set \in CacheTimeSamples,
          shape \in Shapes :
         LET o == GetOutcome(fail)
             uid == CurrentUser(c)
             s == SearchOutcome(memory_cache, backend, uid, query, limit, tags,
                                t_get, t_set, backendOk, clock, shape)
         IN  /\ ApplyGet(o)
             /\ IF o.result = None
                THEN /\ lastCall' = NoCall("search", c)
                     /\ UNCHANGED memory_cache
                ELSE /\ memory_cache' = s.cache
                     /\ lastCall' = [NoCall("search", c) EXCEPT
                            !.uid = uid,
                            !.query = query, !.limit = limit, !.tags = tags,
                            !.backendUid = IF s.backendCalled THEN uid ELSE Missing,
                            !.backendCalled = s.backendCalled,
                            !.fromCache = s.fromCache,
                            !.stored = s.stored,
                            !.found = LookedUp(memory_cache, uid, query, limit,
                                               tags, clock),
                            !.expected = {t \in Texts :
                                /\ Matches(query, t)
                                /\ \E i \in 1..Len(backend[uid]) :
                                       backend[uid][i].memory = t},
                            !.result = s.result]
    /\ UNCHANGED <<backend, deleted>>

\* History of delete_all per user.
\*   "no"       no delete_all of the user succeeded since the user's last add
\*   "removed"  the last one removed records of the user from the backend
\*              and found search results of the user in the cache
\*   "trivial"  the last one found no records or no cached results
\* The entries of the user that are still cached after it are marked stale.
MarkStale(cache, uid) ==
    [i \in 1..Len(cache) |->
        IF cache[i].owner = uid THEN [cache[i] EXCEPT !.stale = TRUE] ELSE cache[i]]

\* delete_memories(delete_all=True), lines 449-480
DeleteAllMemories(c) ==
    /\ Dispatchable(c)
    /\ \E fail \in FailurePoints(environ, backendOk) :
         LET o == GetOutcome(fail)
             uid == CurrentUser(c)
         IN  /\ ApplyGet(o)
             /\ IF o.result = None
                THEN /\ lastCall' = NoCall("delete_all", c)
                     /\ UNCHANGED <<backend, memory_cache, deleted>>
                ELSE IF ~backendOk
                THEN /\ lastCall' = [NoCall("delete_all", c) EXCEPT
                            !.uid = uid, !.backendUid = uid,
                            !.backendCalled = TRUE,
                            !.result = Text("Error deleting memories")]
                     /\ UNCHANGED <<backend, memory_cache, deleted>>
                ELSE /\ backend' = BackendDeleteAll(backend, uid)
                     /\ memory_cache' = MarkStale(PurgeUser(memory_cache, uid), uid)
                     /\ deleted' = [deleted EXCEPT ![uid] =
                            IF /\ backend[uid] # <<>>
                               /\ \E i \in 1..Len(memory_cache) :
                                      memory_cache[i].owner = uid
                            THEN "removed" ELSE "trivial"]
                     /\ lastCall' = [NoCall("delete_all", c) EXCEPT
                            !.uid = uid, !.backendUid = uid,
                            !.backendCalled = TRUE,
                            !.result = Text("Successfully deleted all memories")]

\* line 488: the limit of the search that selects the records to delete
SELECTIVE_SEARCH_LIMIT == 100

\* lines 489-501: the response of the selective path for a search result
SelectiveResponse(search_result) ==
    IF search_result.kind # "json"
    THEN Text("Error parsing search results for deletion")
    ELSE IF Len(search_result.value) = 0
    THEN Text("No memories found matching the criteria")
    ELSE Text("Found memories matching criteria, but selective deletion is not yet supported. Use delete_all=true to delete all memories.")

\* faulty variant of BackendAfterSelective: the records of the user are
\* deleted when the search found some
BackendAfterSelectiveDeleting(bk, uid, search_result) ==
    IF search_result.kind = "json" /\ Len(search_result.value) > 0
    THEN BackendDeleteAll(bk, uid) ELSE bk

\* lines 489-501: the selective path calls no delete of the backend,
\* whatever the search found
BackendAfterSelective(bk, uid, search_result) == bk

\* delete_memories(query, tags, delete_all=False), lines 449-465 and 482-507.
\* The nested search_memories call asks get_memory_client_safe again, which
\* returns the handle of the first call at line 140.
DeleteSelectively(c, query, tags) ==
    /\ Dispatchable(c)
    /\ \E fail \in FailurePoints(environ, backendOk),
          t_get \in CacheTimeSamples, t_set \in CacheTimeSamples,
          shape \in Shapes :
         LET o == GetOutcome(fail)
             uid == CurrentUser(c)
             s == SearchOutcome(memory_cache, backend, uid, query,
                                SELECTIVE_SEARCH_LIMIT, tags, t_get, t_set,
                                backendOk, clock, shape)
         IN  /\ ApplyGet(o)
             /\ IF o.result = None
                THEN /\ lastCall' = NoCall("delete", c)
                     /\ UNCHANGED <<backend, memory_cache>>
                ELSE IF query = "" /\ tags = ""
                THEN /\ lastCall' = [NoCall("delete", c) EXCEPT
                            !.uid = uid,
                            !.result = Text("Error: Must specify either query/tags or delete_all=true")]
                     /\ UNCHANGED <<backend, memory_cache>>
                ELSE /\ memory_cache' = s.cache
                     /\ backend' = BackendAfterSelective(backend, uid, s.result)
                     /\ lastCall' = [NoCall("delete_selective", c) EXCEPT
                            !.uid = uid,
                            !.query = query, !.tags = tags,
                            !.limit = SELECTIVE_SEARCH_LIMIT,
                            !.backendUid = IF s.backendCalled THEN uid ELSE Missing,
                            !.backendCalled = s.backendCalled,
                            !.fromCache = s.fromCache,
                            !.stored = s.stored,
                            !.result = SelectiveResponse(s.result)]
    /\ UNCHANGED deleted

\* lines 575-615: the statistics computed from the response of the nested
\* get_all_memories call; a response that is not a JSON list counts as empty
StatsOf(all_memories_result) ==
    [kind  |-> "stats",
     total |-> IF all_memories_result.kind = "json"
               THEN Len(all_memories_result.value) ELSE 0]

\* get_memory_stats, lines 561-617.  The nested get_all_memories call asks
\* get_memory_client_safe again, which returns the handle of the first call
\* at line 140.
GetMemoryStats(c) ==
    /\ Dispatchable(c)
    /\ \E fail \in FailurePoints(environ, backendOk), shape \in Shapes :
         LET o == GetOutcome(fail)
             uid == CurrentUser(c)
             memories == BackendResponse(shape, BackendGetAll(backend, uid))
             all_memories_result ==
                 IF ~backendOk THEN Text("Error getting memories")
                 ELSE Json(GetAllFlattened(memories))
         IN  /\ ApplyGet(o)
             /\ lastCall' =
                  IF o.result = None THEN NoCall("stats", c)
                  ELSE [NoCall("stats", c) EXCEPT
                          !.uid = uid, !.backendUid = uid,
                          !.backendCalled = TRUE,
                          !.result = StatsOf(all_memories_result)]
    /\ UNCHANGED <<backend, memory_cache, deleted>>

\* JSON documents given to batch_add_memories.  A document is malformed, or
\* an object, or an array; an element of an array is a string or a number.
\* The string at position i is "t1" for odd i and "t2" for even i.
JsonString(i) == [type |-> "str", text |-> IF i % 2 = 1 THEN "t1" ELSE "t2"]

JsonNumber == [type |-> "num", text |-> "7"]

\* the arrays of up to BATCH_SIZE_LIMIT + 1 elements that hold strings only
\* (k = 0) or a number at position k
JsonArrays ==
    UNION {{[i \in 1..n |-> IF i = k THEN JsonNumber ELSE JsonString(i)] :
               k \in 0..n} : n \in 0..(BATCH_SIZE_LIMIT + 1)}

JsonDocs ==
    {[kind |-> "malformed", items |-> <<>>], [kind |-> "object", items |-> <<>>]}
        \cup {[kind |-> "array", items |-> a] : a \in JsonArrays}

\* json.loads(memories), line 526: raises JSONDecodeError or yields the value
JsonLoads(doc) ==
    IF doc.kind = "malformed"
    THEN [raised |-> TRUE, isList |-> FALSE, list |-> <<>>]
    ELSE [raised |-> FALSE, isList |-> doc.kind = "array", list |-> doc.items]

\* faulty variant of BatchTooLarge: the comparison is off by one
BatchTooLargeStrict(memory_list) == Len(memory_list) >= BATCH_SIZE_LIMIT

\* line 529
BatchTooLarge(memory_list) == Len(memory_list) > BATCH_SIZE_LIMIT

\* lines 525-532: the validation error, or NoString when the input passes
BatchValidationError(doc) ==
    LET parsed == JsonLoads(doc) IN
    IF parsed.raised THEN "Error: invalid JSON format for memories"
    ELSE IF ~parsed.isList THEN "Error: memories must be a JSON array"
    ELSE IF BatchTooLarge(parsed.list) THEN "Error: batch size limited"
    ELSE NoString

\* memory_text[:50] is defined for a string and raises TypeError for a number
Sliceable(memory_text) == memory_text.type = "str"

\* lines 538-551, from element i on.  failing is the set of positions whose
\* memory_client.add raises.  The line of an element is built from
\* memory_text[:50], in the try block after the add (lines 545, 549) and in
\* the except block (line 551) alike: for an element that cannot be sliced the
\* TypeError leaves the loop.
RECURSIVE BatchLoop(_, _, _, _, _, _)
BatchLoop(bk, uid, memory_list, i, failing, acc) ==
    IF i > Len(memory_list)
    THEN [backend |-> bk, lines |-> acc.lines, attempted |-> acc.attempted,
          raised |-> FALSE]
    ELSE LET added == i \notin failing
             bk1   == IF added
                      THEN BackendAdd(bk, uid, memory_list[i].text, <<>>)
                      ELSE bk
             seen  == Append(acc.attempted, i)
         IN  IF ~Sliceable(memory_list[i])
             THEN [backend |-> bk1, lines |-> acc.lines, attempted |-> seen,
                   raised |-> TRUE]
             ELSE BatchLoop(bk1, uid, memory_list, i + 1, failing,
                            [lines |-> Append(acc.lines,
                                        [ok |-> added, text |-> memory_list[i].text]),
                             attempted |-> seen])

\* History of a batch_add_memories call, joined to the call record.
\*   doc        the document given
\*   client     get_memory_client_safe returned a handle
\*   attempted  positions handed to memory_client.add, in the order of the calls
\*   failing    positions whose add raised
BatchCall(c, doc, client, attempted, failing, call) ==
    [doc |-> doc, client |-> client, attempted |-> attempted,
     failing |-> failing] @@ call

\* batch_add_memories, lines 513-555
BatchAddMemories(c, doc) ==
    /\ Dispatchable(c)
    /\ \E fail \in FailurePoints(environ, backendOk),
          failing \in SUBSET (IF BatchValidationError(doc) = NoString
                               THEN 1..Len(doc.items) ELSE {}) :
         LET o   == GetOutcome(fail)
             uid == CurrentUser(c)
             err == BatchValidationError(doc)
             run == BatchLoop(backend, uid, doc.items, 1,
                              IF backendOk THEN failing ELSE 1..Len(doc.items),
                              [lines |-> <<>>, attempted |-> <<>>])
         IN  /\ ApplyGet(o)
             /\ IF o.result = None
                THEN /\ lastCall' = BatchCall(c, doc, FALSE, <<>>, {},
                                              NoCall("batch_add", c))
                     /\ UNCHANGED <<backend, deleted>>
                ELSE IF err # NoString
                THEN /\ lastCall' = BatchCall(c, doc, TRUE, <<>>, {},
                            [NoCall("batch_add", c) EXCEPT !.result = Text(err)])
                     /\ UNCHANGED <<backend, deleted>>
                ELSE /\ backend' = run.backend
                     /\ deleted' = IF run.backend = backend THEN deleted
                                   ELSE [deleted EXCEPT ![uid] = "no"]
                     /\ lastCall' = BatchCall(c, doc, TRUE, run.attempted,
                            {i \in 1..Len(doc.items) : i \in failing \/ ~backendOk},
                            [NoCall("batch_add", c) EXCEPT
                                !.uid = uid, !.backendUid = uid,
                                !.backendCalled = run.attempted # <<>>,
                                !.result =
                                    IF run.raised
                                    THEN Text("Error in batch operation")
                                    ELSE [kind |-> "batch", lines |-> run.lines]])
    /\ UNCHANGED memory_cache

InitToolVars ==
    /\ backend = [u \in BackendUsers |-> <<>>]
    /\ memory_cache = <<>>
    /\ deleted = [u \in BackendUsers |-> "no"]
    /\ lastCall = None

-----------------------------------------------------------------------------
(* Specification of the rate limiter alone *)

EmptyMap == [k \in {} |-> None]

InitRateVars ==
    /\ rate_limit_store = EmptyMap
    /\ rateHist = EmptyMap
    /\ lastRate = None

\* the state of the other components at start
InitRest ==
    /\ allowed_keys = <<"">>
    /\ InitSessionVars
    /\ InitToolVars

InitRate ==
    /\ clock = 0
    /\ InitRateVars
    /\ InitEnvDefault
    /\ InitRegistryVars
    /\ InitRest

RateCall ==
    /\ \E ip \in ClientIps, u \in UserIds : CheckRateLimit(ip, u)
    /\ UNCHANGED <<clock, envVars, registryVars, sessionVars, toolVars>>

RateTick == Tick /\ UNCHANGED <<rateVars, envVars, registryVars, sessionVars, toolVars>>

NextRate == RateCall \/ RateTick

SpecRate == InitRate /\ [][NextRate]_vars

-----------------------------------------------------------------------------
(* Properties of the rate limiter (SpecRate) *)

\* C2: starting from a fresh window, the first MAX_REQUESTS_PER_MINUTE
\* check_rate_limit calls for a key within one window (of wall-clock length
\* REQUEST_WINDOW_SECONDS) all return true and the next call within the same
\* window returns false.
RateLimitCeiling ==
    lastRate # None =>
        LET h == rateHist[lastRate.key] IN
        h.fresh =>
            /\ (h.calls <= MAX_REQUESTS_PER_MINUTE => lastRate.allowed)
            /\ (h.calls = MAX_REQUESTS_PER_MINUTE + 1 => ~lastRate.allowed)

\* C3: after a key has been rejected, a request for it made once more than
\* REQUEST_WINDOW_SECONDS have elapsed since its window started succeeds, the
\* window being reset to count 0 at the time of the call (and counting this
\* request).
RateLimitRecovery ==
    (lastRate # None /\ lastRate.wasRejected
        /\ lastRate.elapsed > REQUEST_WINDOW_SECONDS) =>
        /\ lastRate.allowed
        /\ rate_limit_store[lastRate.key] =
               [count |-> 1, window_start |-> lastRate.time]

\* the counter of every window is the number of calls admitted since the
\* code started the window
RateNoLostIncrement ==
    \A key \in DOMAIN rateHist :
        rate_limit_store[key].count = rateHist[key].sinceReset

\* C30: in every interleaving of the connection attempts for one key no
\* increment of the window counter is lost and at most
\* MAX_REQUESTS_PER_MINUTE requests are admitted within one window (of
\* wall-clock length REQUEST_WINDOW_SECONDS).  Every step of SpecRate is one
\* whole check_rate_limit call, which has no await in it, taken in any order
\* of the callers.
RateConcurrency ==
    /\ RateNoLostIncrement
    /\ \A key \in DOMAIN rateHist :
           rateHist[key].admitted <= MAX_REQUESTS_PER_MINUTE

-----------------------------------------------------------------------------
(* Specification of check_rate_limit for addresses and user ids that     *)
(* contain the separator of the key                                        *)

\* <<client_ip, user_id>>: the address ::1 with the user 2:bob, the address
\* ::1:2 with the user bob, and the address ::1 with the user bob
RateKeyPairs ==
    {<< <<":", ":", "1">>, <<"2", ":", "bob">> >>,
     << <<":", ":", "1", ":", "2">>, <<"bob">> >>,
     << <<":", ":", "1">>, <<"bob">> >>}

RateKeysCall ==
    /\ \E p \in RateKeyPairs : CheckRateLimit(p[1], p[2])
    /\ UNCHANGED <<clock, envVars, registryVars, sessionVars, toolVars>>

RateKeysTick ==
    Tick /\ UNCHANGED <<rateVars, envVars, registryVars, sessionVars, toolVars>>

NextRateKeys == RateKeysCall \/ RateKeysTick

SpecRateKeys == InitRate /\ [][NextRateKeys]_vars

\* the window (count, window_start) of a pair
WindowOf(store, p) ==
    IF RateKey(p[1], p[2]) \in DOMAIN store
    THEN store[RateKey(p[1], p[2])] ELSE None

\* C26: a check_rate_limit call for one pair (client_address, user_id) never
\* changes the window of another pair (SpecRateKeys)
RateKeyIndependence ==
    [][\A p \in RateKeyPairs :
          (lastRate' # None /\ p # lastRate'.pair) =>
              WindowOf(rate_limit_store', p) = WindowOf(rate_limit_store, p)]_vars

-----------------------------------------------------------------------------
(* Specification of the backend client registry alone *)

InitRegistry ==
    /\ clock = 0
    /\ InitRateVars
    /\ InitEnv
    /\ InitRegistryVars
    /\ InitRest

RegistryGet ==
    /\ GetMemoryClientSafe
    /\ UNCHANGED <<clock, rateVars, envVars, sessionVars, toolVars>>

RegistryChangeConfig ==
    ChangeConfig /\ UNCHANGED <<clock, rateVars, sessionVars, toolVars>>

RegistryBackendToggle ==
    BackendToggle /\ UNCHANGED <<clock, rateVars, sessionVars, toolVars>>

NextRegistry == RegistryGet \/ RegistryChangeConfig \/ RegistryBackendToggle

SpecRegistry == InitRegistry /\ [][NextRegistry]_vars

-----------------------------------------------------------------------------
(* Properties of the backend client registry (SpecRegistry) *)

\* C4: with the configuration unchanged, all calls of get_memory_client_safe,
\* the constructing call included, return the same handle.
RegistryReuse == Cardinality(regHist.returned) <= 1

\* C5: once a handle exists, a call made after a fingerprinted configuration
\* value changed (the backend being reachable) returns a handle built for the
\* configuration of the call, and at most one handle is built per
\* configuration.
RegistryRebuild ==
    /\ regHist.builtNow <= 1
    /\ (lastGet # None /\ lastGet.hadHandle /\ lastGet.backendOk) =>
           /\ lastGet.result # None
           /\ lastGet.result.builtFor = lastGet.hash

\* C6: callers racing on one configuration cause at most one construction
\* and all receive the same result: none receives "unavailable" while
\* another receives a handle, and no two receive different handles.
RegistrySingleFlight ==
    /\ regHist.builtNow <= 1
    /\ \A r1, r2 \in regHist.returned :
           (r1 # None /\ r2 # None) => r1.id = r2.id
    /\ ~(None \in regHist.returned /\ regHist.returned # {None})

\* C7: a call made after an earlier call failed in construction, at a time
\* when the backend can be constructed, returns a handle.
NoPermanentPoison ==
    (lastGet # None /\ lastGet.afterFailure /\ lastGet.backendOk) =>
        lastGet.result # None

\* the last call returned a Local handle that was built under configuration
\* bits (ConfigHash tells the configurations apart)
LocalHandleFor(bits) ==
    /\ lastGet # None
    /\ lastGet.result # None
    /\ lastGet.result.kind = "Memory"
    /\ lastGet.result.builtFor = ConfigHash(EnvOf(bits))

\* C21 as stated: the provider stack of a Local handle is llama.cpp whenever
\* LLAMA_CPP_MODEL was configured when it was built, otherwise Ollama
\* whenever OLLAMA_HOST was, otherwise the OpenAI default.
ProviderLlamaFirst ==
    \A bits \in Environs :
        LocalHandleFor(bits) =>
            lastGet.result.provider =
                IF bits["LLAMA_CPP_MODEL"] = 1 THEN "llama.cpp"
                ELSE IF bits["OLLAMA_HOST"] = 1 THEN "ollama"
                ELSE "openai"

\* C21 amended: the provider stack of a Local handle is Ollama whenever
\* OLLAMA_HOST was configured when it was built, otherwise llama.cpp
\* whenever LLAMA_CPP_MODEL was, otherwise the OpenAI default; a Local
\* handle is built only without MEM0_API_KEY.
ProviderOllamaFirst ==
    \A bits \in Environs :
        LocalHandleFor(bits) =>
            /\ bits["MEM0_API_KEY"] = 0
            /\ lastGet.result.provider =
                   IF bits["OLLAMA_HOST"] = 1 THEN "ollama"
                   ELSE IF bits["LLAMA_CPP_MODEL"] = 1 THEN "llama.cpp"
                   ELSE "openai"

\* a Local handle built with both OLLAMA_HOST and LLAMA_CPP_MODEL configured
\* was returned
ProviderOllamaFirstWitness ==
    \E bits \in Environs :
        /\ bits["OLLAMA_HOST"] = 1
        /\ bits["LLAMA_CPP_MODEL"] = 1
        /\ LocalHandleFor(bits)

\* C27: every Remote handle that get_memory_client_safe returns has had the
\* project-level settings (custom instructions) applied successfully
RemoteHandleComplete ==
    (lastGet # None /\ lastGet.result # None
        /\ lastGet.result.kind = "MemoryClient") =>
        lastGet.result.instructions

-----------------------------------------------------------------------------
(* Specification of the connections: handle_sse and the tools that store   *)
(* and list records                                                        *)

\* the text the connections store
SessionText == "t1"

InitSession ==
    /\ clock = 0
    /\ InitRateVars
    /\ InitEnvDefault
    /\ InitRegistryVars
    /\ allowed_keys = <<"k1">>
    /\ InitSessionVars
    /\ InitToolVars

SessionConnect ==
    /\ \E c \in Conns, ip \in ClientIps, u \in UserIds, n \in ClientNames,
          k \in ApiKeyHeaders : Connect(c, ip, u, n, k)
    /\ UNCHANGED <<clock, envVars, registryVars, toolVars>>

\* the sessions of this specification end normally
SessionDisconnect ==
    /\ \E c \in Conns : Disconnect(c, "end")
    /\ UNCHANGED <<clock, rateVars, envVars, registryVars, toolVars>>

SessionAdd ==
    /\ \E c \in Conns, tags \in TagInputs : AddMemories(c, SessionText, tags)
    /\ UNCHANGED <<clock, rateVars, envVars, sessionVars>>

SessionGetAll ==
    /\ \E c \in Conns : GetAllMemories(c)
    /\ UNCHANGED <<clock, rateVars, envVars, sessionVars>>

NextSession ==
    SessionConnect \/ SessionDisconnect \/ SessionAdd \/ SessionGetAll

SpecSession == InitSession /\ [][NextSession]_vars

-----------------------------------------------------------------------------
(* Specification of the tools on two established connections *)

\* connection c1 was opened for alice and c2 for bob, from the same address,
\* both admitted by the rate limiter with current_time 0
OpenedFor(c) == IF c = "c1" THEN <<"alice">> ELSE <<"bob">>

InitOpenAs(opened) ==
    /\ clock = 0
    /\ LET ip == CHOOSE a \in ClientIps : TRUE
           k1 == RateKey(ip, opened["c1"])
           k2 == RateKey(ip, opened["c2"])
       IN  /\ rate_limit_store =
                  CheckRateLimitStore(CheckRateLimitStore(EmptyMap, k1, 0), k2, 0)
           /\ rateHist = EmptyMap
           /\ lastRate = None
    /\ environ = [n \in EnvNames |-> Unset]
    /\ backendOk \in BOOLEAN
    /\ InitRegistryVars
    /\ allowed_keys = <<"">>
    /\ conns = [c \in Conns |->
                  [state |-> "open", uid |-> opened[c],
                   user_token |-> Missing, client_token |-> Missing]]
    /\ user_id_var = opened
    /\ client_name_var = [c \in Conns |-> CHOOSE n \in ClientNames : TRUE]
    /\ lastConn = [kind |-> "conn", conn |-> "c2", event |-> "connect",
                   status |-> 200]

InitOpen == InitOpenAs([c \in Conns |-> OpenedFor(c)])

InitTools == InitOpen /\ InitToolVars

ToolsAdd ==
    /\ \E c \in Conns, t \in Texts, tags \in TagInputs : AddMemories(c, t, tags)
    /\ UNCHANGED <<clock, rateVars, envVars, sessionVars>>

ToolsGetAll ==
    /\ \E c \in Conns : GetAllMemories(c)
    /\ UNCHANGED <<clock, rateVars, envVars, sessionVars>>

ToolsSearch ==
    /\ \E c \in Conns, q \in Queries, tags \in TagInputs :
          SearchMemories(c, q, DEFAULT_LIMIT, tags)
    /\ UNCHANGED <<clock, rateVars, envVars, sessionVars>>

ToolsDeleteAll ==
    /\ \E c \in Conns : DeleteAllMemories(c)
    /\ UNCHANGED <<clock, rateVars, envVars, sessionVars>>

ToolsTick ==
    Tick /\ UNCHANGED <<rateVars, envVars, registryVars, sessionVars, toolVars>>

NextTools ==
    \/ ToolsAdd \/ ToolsGetAll \/ ToolsSearch \/ ToolsDeleteAll
    \/ ToolsTick

SpecTools == InitTools /\ [][NextTools]_vars

-----------------------------------------------------------------------------
(* Specification of the result cache under searches of two users *)

CacheSearch ==
    /\ \E c \in Conns, q \in Texts, tags \in TagInputs :
          SearchMemories(c, q, DEFAULT_LIMIT, tags)
    /\ UNCHANGED <<clock, rateVars, envVars, sessionVars>>

CacheTick ==
    Tick /\ UNCHANGED <<rateVars, envVars, registryVars, sessionVars, toolVars>>

NextCache == CacheSearch \/ CacheTick

SpecCache == InitTools /\ [][NextCache]_vars

-----------------------------------------------------------------------------
(* Specification of searches of two users that differ in one parameter    *)
(* each, over a backend that holds records of both                         *)

\* alice added "t1" with the tag work and "t2", bob added "t2"
InitKeys ==
    /\ InitOpen
    /\ backend = [u \in BackendUsers |->
                    IF u = <<"alice">>
                    THEN <<Record("t1", <<"work">>), Record("t2", <<>>)>>
                    ELSE IF u = <<"bob">> THEN <<Record("t2", <<>>)>>
                    ELSE <<>>]
    /\ memory_cache = <<>>
    /\ deleted = [u \in BackendUsers |-> "no"]
    /\ lastCall = None

\* <<query, limit, tags>>: a search, and searches with another query, another
\* limit, a blank tag string and a tag
SearchInputs ==
    {<<"t1", DEFAULT_LIMIT, "">>, <<"t2", DEFAULT_LIMIT, "">>,
     <<"t1", 0, "">>, <<"t1", DEFAULT_LIMIT, " ">>,
     <<"t1", DEFAULT_LIMIT, "work">>}

\* alice makes all of the searches; bob makes the first of them and the one
\* with the tag
SearchInputsOf(c) ==
    IF c = "c1" THEN SearchInputs
    ELSE {<<"t1", DEFAULT_LIMIT, "">>, <<"t1", DEFAULT_LIMIT, "work">>}

KeysSearch ==
    /\ \E c \in Conns : \E in \in SearchInputsOf(c) :
          SearchMemories(c, in[1], in[2], in[3])
    /\ UNCHANGED <<clock, rateVars, envVars, sessionVars>>

NextKeys == KeysSearch

SpecKeys == InitKeys /\ [][NextKeys]_vars

-----------------------------------------------------------------------------
(* Specification of the cache under searches and delete_all of two users, *)
(* one of whose user_id contains the other between two colons             *)

PurgeOpenedFor(c) == IF c = "c1" THEN <<"alice">> ELSE ColonUserId

InitPurge == InitOpenAs([c \in Conns |-> PurgeOpenedFor(c)]) /\ InitToolVars

PurgeAdd ==
    /\ \E c \in Conns, tags \in TagInputs : AddMemories(c, "t1", tags)
    /\ UNCHANGED <<clock, rateVars, envVars, sessionVars>>

PurgeSearch ==
    /\ \E c \in Conns, q \in Queries, tags \in TagInputs :
          SearchMemories(c, q, DEFAULT_LIMIT, tags)
    /\ UNCHANGED <<clock, rateVars, envVars, sessionVars>>

PurgeDeleteAll ==
    /\ \E c \in Conns : DeleteAllMemories(c)
    /\ UNCHANGED <<clock, rateVars, envVars, sessionVars>>

NextPurge == PurgeAdd \/ PurgeSearch \/ PurgeDeleteAll

SpecPurge == InitPurge /\ [][NextPurge]_vars

-----------------------------------------------------------------------------
(* Specification of handle_sse alone: connections that are admitted or     *)
(* turned away and that end on every exit path                             *)

ExitConnect ==
    /\ \E c \in Conns, ip \in ClientIps, u \in UserIds, n \in ClientNames,
          k \in ApiKeyHeaders : Connect(c, ip, u, n, k)
    /\ UNCHANGED <<clock, envVars, registryVars, toolVars>>

ExitDisconnect ==
    /\ \E c \in Conns, how \in ExitPaths : Disconnect(c, how)
    /\ UNCHANGED <<clock, rateVars, envVars, registryVars, toolVars>>

NextExit == ExitConnect \/ ExitDisconnect

SpecExit == InitSession /\ [][NextExit]_vars

-----------------------------------------------------------------------------
(* Specification of authenticate_request alone, for every allow-list *)

InitAuth ==
    /\ clock = 0
    /\ InitRateVars
    /\ InitEnvDefault
    /\ InitRegistryVars
    /\ allowed_keys \in AllowLists
    /\ InitSessionVars
    /\ InitToolVars

\* a request arrives and authenticate_request handles it
AuthRequest ==
    /\ \E ip \in ClientIps, u \in UserIds, k \in ApiKeyHeaders,
          current_time \in RateTimeSamples :
         LET a == AuthenticateRequest(allowed_keys, rate_limit_store, k, ip, u,
                                      current_time)
         IN  /\ rate_limit_store' = a.store
             /\ lastConn' = [kind |-> "auth", api_key |-> k, status |-> a.status]
    /\ UNCHANGED <<clock, rateHist, lastRate, envVars, registryVars, allowed_keys,
                   conns, user_id_var, client_name_var, toolVars>>

NextAuth == AuthRequest

SpecAuth == InitAuth /\ [][NextAuth]_vars

-----------------------------------------------------------------------------
(* Specification of batch_add_memories on an established connection *)

\* the connection that sends batches
BatchConns == {"c1"}

BatchAdd ==
    /\ \E c \in BatchConns, doc \in JsonDocs : BatchAddMemories(c, doc)
    /\ UNCHANGED <<clock, rateVars, envVars, sessionVars>>

BatchDeleteAll ==
    /\ \E c \in BatchConns : DeleteAllMemories(c)
    /\ UNCHANGED <<clock, rateVars, envVars, sessionVars>>

NextBatch == BatchAdd \/ BatchDeleteAll

SpecBatch == InitTools /\ [][NextBatch]_vars

-----------------------------------------------------------------------------
(* Specification of the tools on a backend that comes and goes *)

\* the connection that calls the tools
FaultsConns == {"c1"}

\* the text the connection stores and looks for
FaultsText == "t1"

FaultsAdd ==
    /\ \E c \in FaultsConns, tags \in TagInputs : AddMemories(c, FaultsText, tags)
    /\ UNCHANGED <<clock, rateVars, envVars, sessionVars>>

FaultsGetAll ==
    /\ \E c \in FaultsConns : GetAllMemories(c)
    /\ UNCHANGED <<clock, rateVars, envVars, sessionVars>>

FaultsSearch ==
    /\ \E c \in FaultsConns, tags \in TagInputs :
          SearchMemories(c, FaultsText, DEFAULT_LIMIT, tags)
    /\ UNCHANGED <<clock, rateVars, envVars, sessionVars>>

FaultsDeleteAll ==
    /\ \E c \in FaultsConns : DeleteAllMemories(c)
    /\ UNCHANGED <<clock, rateVars, envVars, sessionVars>>

\* query and tags of the delete_memories calls without delete_all
SelectiveInputs == {<<"", "">>, <<FaultsText, "">>, <<"", "work">>}

FaultsDeleteSelectively ==
    /\ \E c \in FaultsConns, in \in SelectiveInputs : DeleteSelectively(c, in[1], in[2])
    /\ UNCHANGED <<clock, rateVars, envVars, sessionVars>>

FaultsStats ==
    /\ \E c \in FaultsConns : GetMemoryStats(c)
    /\ UNCHANGED <<clock, rateVars, envVars, sessionVars>>

FaultsBackendToggle ==
    BackendToggle /\ UNCHANGED <<clock, rateVars, sessionVars, toolVars>>

NextFaults ==
    \/ FaultsAdd \/ FaultsGetAll \/ FaultsSearch \/ FaultsDeleteAll
    \/ FaultsDeleteSelectively \/ FaultsStats \/ FaultsBackendToggle

SpecFaults == InitTools /\ [][NextFaults]_vars

-----------------------------------------------------------------------------
(* Properties of the connections (SpecSession) *)

\* C1: every open connection reads its own user_id as the current user,
\* whatever the other connections do, and every tool call resolves the
\* identity of its connection and passes that identity to the backend.
SessionIsolation ==
    /\ \A c \in Conns :
          conns[c].state = "open" =>
              CtxGet(user_id_var, c, DEFAULT_USER_ID) = conns[c].uid
    /\ lastCall # None =>
          /\ (lastCall.uid # Missing => lastCall.uid = lastCall.connUser)
          /\ (lastCall.backendCalled => lastCall.backendUid = lastCall.connUser)

\* a tool call reached the backend while a connection of another user was open
SessionIsolationWitness ==
    /\ lastCall # None
    /\ lastCall.backendCalled
    /\ \E p \in lastCall.peers : p # lastCall.connUser

-----------------------------------------------------------------------------
(* Properties of handle_sse alone (SpecExit) *)

\* C14: once the handler of a bound connection has exited, on whichever
\* path, its context holds neither user_id nor client_name, and reading the
\* current user there yields DEFAULT_USER_ID.
SessionRestore ==
    \A c \in Conns :
        conns[c].state = "closed" =>
            /\ user_id_var[c] = Missing
            /\ client_name_var[c] = Missing
            /\ CtxGet(user_id_var, c, DEFAULT_USER_ID) = DEFAULT_USER_ID

\* the handler of a bound connection has just exited through an error
SessionRestoreWitness ==
    /\ lastConn # None
    /\ lastConn.event = "error"
    /\ conns[lastConn.conn].state = "closed"

-----------------------------------------------------------------------------
(* Properties of the connections (SpecSession), continued *)

\* C16: an identity is bound only for a connection that authenticate_request
\* admitted, a request that ends with 401 or 429 binds nothing and opens no
\* session, and a tool call is dispatched only for an admitted connection.
GateOrdering ==
    /\ \A c \in Conns :
          (user_id_var[c] # Missing \/ client_name_var[c] # Missing) =>
              conns[c].state = "open"
    /\ (lastConn # None /\ lastConn.status \in {401, 429}) =>
          /\ conns[lastConn.conn].state = "closed"
          /\ user_id_var[lastConn.conn] = Missing
    /\ lastCall # None => lastCall.connUser # Missing

\* a request was turned away with 429 after a tool call had been served on
\* an admitted connection
GateOrderingWitness ==
    /\ lastConn # None
    /\ lastConn.status = 429
    /\ lastCall # None
    /\ lastCall.backendCalled

-----------------------------------------------------------------------------
(* Properties of authenticate_request (SpecAuth) *)

\* the allow-list is configured: ALLOWED_API_KEYS is set to a non-empty value
AllowListConfigured == allowed_keys # <<"">> /\ allowed_keys # <<>>

InAllowList(api_key) == \E i \in 1..Len(allowed_keys) : allowed_keys[i] = api_key

\* C15 as stated: a request ends with 401 exactly when the API-key header is
\* present and its value is not in the configured allow-list; with no
\* allow-list configured no request ends with 401.
AuthExactly ==
    (lastConn # None /\ lastConn.kind = "auth") =>
        (lastConn.status = 401 <=>
            /\ lastConn.api_key # NoString
            /\ AllowListConfigured
            /\ ~InAllowList(lastConn.api_key))

\* C15 amended: a request ends with 401 exactly when the API-key header is
\* present with a non-empty value that is not in the configured allow-list;
\* with no allow-list configured no request ends with 401.
AuthExactlyNonEmpty ==
    (lastConn # None /\ lastConn.kind = "auth") =>
        (lastConn.status = 401 <=>
            /\ lastConn.api_key # NoString
            /\ lastConn.api_key # ""
            /\ AllowListConfigured
            /\ ~InAllowList(lastConn.api_key))

\* a request with a key outside the configured allow-list was turned away
AuthExactlyWitness ==
    /\ lastConn # None
    /\ lastConn.kind = "auth"
    /\ AllowListConfigured
    /\ lastConn.api_key = "bad"
    /\ lastConn.status = 401

-----------------------------------------------------------------------------
(* Properties of the tools (SpecTools) *)

ResultTexts(result) == {result.value[i] : i \in 1..Len(result.value)}

\* C8: a search by a user whose query matches a text that the user added
\* (and did not delete) returns a list containing that text, whatever
\* searches preceded the add.
AddThenSearch ==
    (lastCall # None /\ lastCall.op = "search" /\ lastCall.result.kind = "json") =>
        lastCall.expected \subseteq ResultTexts(lastCall.result)

CacheHit ==
    (lastCall # None /\ lastCall.op = "search" /\ lastCall.found # None
        /\ lastCall.found.age < CACHE_TTL_SECONDS) =>
        /\ lastCall.result = lastCall.found.result
        /\ ~lastCall.backendCalled

\* C11: a search that looks up a cache entry stored more than
\* CACHE_TTL_SECONDS ago is not answered from the cache: the lookup is a
\* miss and the search calls the backend.
CacheExpiry ==
    (lastCall # None /\ lastCall.op = "search" /\ lastCall.found # None
        /\ lastCall.found.age > CACHE_TTL_SECONDS) =>
        /\ ~lastCall.fromCache
        /\ lastCall.backendCalled

-----------------------------------------------------------------------------
(* Properties of the result cache (SpecCache) *)

\* the call of this step stored a result under a key the full cache lacked
StoresIntoFullCache ==
    /\ clock' = clock
    /\ lastCall' # None
    /\ lastCall'.stored # Missing
    /\ Len(memory_cache) = CACHE_MAX_SIZE
    /\ CacheIndex(memory_cache, lastCall'.stored) = 0

\* the cache after the step is the cache before it without entry i and with
\* the stored entry appended
EvictedOnly(i) ==
    /\ Len(memory_cache') = Len(memory_cache)
    /\ SubSeq(memory_cache', 1, Len(memory_cache) - 1) = RemoveAt(memory_cache, i)
    /\ memory_cache'[Len(memory_cache)].key = lastCall'.stored
    /\ memory_cache'[Len(memory_cache)].result = lastCall'.result

\* C12: when set_cached_result inserts one more distinct key than
\* CACHE_MAX_SIZE, exactly one entry is evicted, it is the entry that was
\* created first, and every other entry, the inserted one included, stays.
CacheEviction ==
    [][StoresIntoFullCache =>
          \E i \in 1..Len(memory_cache) :
              /\ EvictedOnly(i)
              /\ \A j \in 1..Len(memory_cache) :
                     memory_cache[i].storedAt <= memory_cache[j].storedAt]_vars

\* C13: the result cache never holds more than CACHE_MAX_SIZE entries.
CacheSizeBound == Len(memory_cache) <= CACHE_MAX_SIZE

\* a search stored its result into a full cache and an entry was evicted:
\* the cache is full and lacks the key just stored
CacheSizeBoundWitness ==
    /\ lastCall # None
    /\ lastCall.stored # Missing
    /\ Len(memory_cache) = CACHE_MAX_SIZE
    /\ CacheIndex(memory_cache, lastCall.stored) = 0

-----------------------------------------------------------------------------
(* Properties of batch_add_memories (SpecBatch) *)

\* the last call was a batch_add_memories whose input passed validation
BatchRan ==
    /\ lastCall # None
    /\ lastCall.op = "batch_add"
    /\ lastCall.client
    /\ lastCall.doc.kind = "array"
    /\ Len(lastCall.doc.items) <= BATCH_SIZE_LIMIT

\* C17: for a batch that passes validation every element is handed to the
\* backend exactly once, in order, whether or not earlier elements failed;
\* the result has one line per element, telling whether its add succeeded,
\* and every element whose add succeeded is in the backend afterwards.
BatchPartialFailure ==
    BatchRan =>
        LET n == Len(lastCall.doc.items) IN
        /\ lastCall.attempted = [i \in 1..n |-> i]
        /\ lastCall.result.kind = "batch"
        /\ Len(lastCall.result.lines) = n
        /\ \A i \in 1..n :
              /\ lastCall.result.lines[i].ok = (i \notin lastCall.failing)
              /\ i \notin lastCall.failing =>
                    \E j \in 1..Len(backend[lastCall.connUser]) :
                        backend[lastCall.connUser][j].memory =
                            lastCall.doc.items[i].text

\* the validation messages of batch_add_memories
BatchValidationErrors ==
    {"Error: invalid JSON format for memories",
     "Error: memories must be a JSON array",
     "Error: batch size limited"}

-----------------------------------------------------------------------------
(* Properties of the tools on a backend that comes and goes (SpecFaults) *)

\* C22: a search_memories call with at least one non-blank tag never
\* returns a cached value and never adds or changes a cache entry (SpecKeys,
\* where every step is a search_memories call)
TaggedSearch(call) ==
    /\ call # None /\ call.op = "search" /\ call.uid # Missing
    /\ ParseTags(call.tags) # <<>>

SearchCacheBypass ==
    [][TaggedSearch(lastCall') =>
          ~lastCall'.fromCache /\ memory_cache' = memory_cache]_vars

\* a search with a tag was answered by the backend while the cache held the
\* result of the same search without the tag
SearchCacheBypassWitness ==
    /\ TaggedSearch(lastCall) /\ lastCall.backendCalled
    /\ lastCall.result = Json(<<"t1">>)
    /\ \E i \in 1..Len(memory_cache) :
          /\ memory_cache[i].owner = lastCall.uid
          /\ memory_cache[i].params = <<lastCall.query, lastCall.limit, "">>

\* C23: a cached result is returned only to a search_memories call with the
\* user_id, query, limit and tags of the call that stored it
CacheKeySeparation ==
    (lastCall # None /\ lastCall.op = "search" /\ lastCall.fromCache) =>
        /\ lastCall.found # None
        /\ lastCall.found.owner = lastCall.uid
        /\ lastCall.found.params =
               <<lastCall.query, lastCall.limit, lastCall.tags>>
        /\ lastCall.result = lastCall.found.result

\* a search is served from the cache while the cache holds the result of
\* the same search of another user
CacheKeySeparationWitness ==
    /\ lastCall # None /\ lastCall.op = "search" /\ lastCall.fromCache
    /\ \E i \in 1..Len(memory_cache) :
          /\ memory_cache[i].owner # lastCall.uid
          /\ memory_cache[i].params =
                 <<lastCall.query, lastCall.limit, lastCall.tags>>

\* C24: for the same records, get_all_memories and search_memories return
\* the flattened list of the record texts whichever of the two response
\* shapes the backend returned
ResponseNormalized ==
    (lastCall # None /\ lastCall.backendCalled /\ lastCall.result.kind = "json") =>
        /\ lastCall.op = "get_all" =>
              lastCall.result.value = Flatten(BackendGetAll(backend, lastCall.uid))
        /\ lastCall.op = "search" =>
              LET all  == BackendSearch(backend, lastCall.uid, lastCall.query)
                  tags == ParseTags(lastCall.tags)
                  kept == IF tags # <<>> THEN FilterByTags(all, tags) ELSE all
              IN  lastCall.result.value = Flatten(Truncate(kept, lastCall.limit))

\* C25: delete_memories(delete_all=true) executed as user A leaves every
\* cache entry of every other user unchanged (SpecPurge)
DeleteAllFrame ==
    [][(lastCall' # None /\ lastCall'.op = "delete_all") =>
          \A i \in 1..Len(memory_cache) :
              memory_cache[i].owner # lastCall'.uid =>
                  \E j \in 1..Len(memory_cache') :
                      memory_cache'[j] = memory_cache[i]]_vars

\* the step is a delete_memories call with delete_all false
SelectiveDelete(call) ==
    call # None /\ call.op \in {"delete", "delete_selective"}

\* C28: a delete_memories call with delete_all false leaves the backend's
\* record set and the result cache as they were before the call
SelectiveDeleteFrame ==
    [][SelectiveDelete(lastCall') =>
          backend' = backend /\ memory_cache' = memory_cache]_vars

\* C28 amended: a delete_memories call with delete_all false leaves the
\* backend's record set as it was; every cache entry that is there after
\* the call and was not there before was stored by the nested search of the
\* caller for the call's query and tags with limit 100, the parsed tag
\* filter being empty
SelectiveDeleteBackendFrame ==
    [][SelectiveDelete(lastCall') =>
          /\ backend' = backend
          /\ \A j \in 1..Len(memory_cache') :
                \/ \E i \in 1..Len(memory_cache) :
                       memory_cache[i] = memory_cache'[j]
                \/ /\ memory_cache'[j].owner = lastCall'.uid
                   /\ memory_cache'[j].params =
                          <<lastCall'.query, SELECTIVE_SEARCH_LIMIT, lastCall'.tags>>
                   /\ ParseTags(lastCall'.tags) = <<>>
                   /\ lastCall'.stored = memory_cache'[j].key]_vars

\* a selective delete found records of the user, stored the search result
\* in the cache and left the records in the backend
SelectiveDeleteBackendFrameWitness ==
    /\ lastCall # None /\ lastCall.op = "delete_selective"
    /\ lastCall.stored # Missing
    /\ lastCall.result = SelectiveResponse(Json(<<"t1">>))
    /\ backend[lastCall.uid] # <<>>
    /\ \E i \in 1..Len(memory_cache) : memory_cache[i].key = lastCall.stored

\* the fields of a cache entry that the code keeps
CodeEntry(entry) ==
    [key |-> entry.key, result |-> entry.result, timestamp |-> entry.timestamp]

\* the search_memories call called the backend and the backend raised
FailedSearch(call) ==
    /\ call # None /\ call.op = "search"
    /\ call.backendCalled /\ call.backendDown

\* C29: a search_memories call whose backend call fails stores no entry in
\* the result cache: every entry that is there after the call was there
\* before it
NoCacheWriteOnFailure ==
    [][FailedSearch(lastCall') =>
          \A j \in 1..Len(memory_cache') :
              \E i \in 1..Len(memory_cache) :
                  CodeEntry(memory_cache[i]) = CodeEntry(memory_cache'[j])]_vars

\* a search failed in the backend and returned its error while the cache
\* held no entry for it
NoCacheWriteOnFailureWitness ==
    /\ FailedSearch(lastCall)
    /\ lastCall.result = Text("Error searching memories")
    /\ lastCall.stored = Missing
    /\ \A i \in 1..Len(memory_cache) :
          memory_cache[i].params #
              <<lastCall.query, lastCall.limit, lastCall.tags>>

\* C19: a delete_memories call with delete_all false and a query or tags
\* that got a memory client returns the "not supported" response, whatever
\* the search for matching records yields.
SelectiveNotSupported ==
    (lastCall # None /\ lastCall.op = "delete_selective"
        /\ lastCall.uid # Missing) =>
        lastCall.result =
            Text("Found memories matching criteria, but selective deletion is not yet supported. Use delete_all=true to delete all memories.")

\* the text begins with "Error"
BeginsWithError(text) == Len(text) >= 5 /\ SubSeq(text, 1, 5) = "Error"

\* C20: a tool call during which the memory client is unavailable (the call
\* resolved no identity) or a backend call fails returns a text that begins
\* with "Error".
UniformErrors ==
    (/\ lastCall # None
     /\ \/ lastCall.uid = Missing
        \/ lastCall.backendCalled /\ lastCall.backendDown) =>
        /\ lastCall.result.kind = "text"
        /\ BeginsWithError(lastCall.result.text)

====
